---- MODULE Spec2Model ----
(***************************************************************************)
(* Model of rdma_schema.py: the scene RDMAOverEthernet.construct, played   *)
(* as ManimCE plays it.  construct() is straight-line code made of         *)
(* self.play / self.wait calls ("blocks").  A block is begun (the code in  *)
(* front of the call, compile_animations, Animation.begin), rendered frame *)
(* by frame (Scene.update_to_time: every animation is interpolated at      *)
(* alpha = t / run_time, then the updaters of the scene's mobjects run),   *)
(* and finished (Animation.finish: interpolate(1)).                        *)
(*                                                                         *)
(* Units: times are integer milliseconds; progress values (alpha) are      *)
(* exact rationals <<num, den>>; lengths are in 1/90 of a scene unit; the  *)
(* percentage is in millionths of a percent; the bar width is in 1e-8      *)
(* scene units.                                                            *)
(***************************************************************************)
EXTENDS Integers, Sequences, FiniteSets, TLC

VARIABLES
    fps,            \* frame rate of the render (config["frame_rate"])
    block,          \* index into Blocks of the current self.play/self.wait call
    pc,             \* "ready" | "playing" | "aborted" | "returned"
    n,              \* frames rendered so far in the current block
    alpha,          \* alpha handed to the block's animations at the last interpolation
    duration,       \* Scene.duration of the last block begun (ms)
    rendered,       \* TRUE iff the current state is one the renderer drew as a frame
    edges,          \* the list `edges` (drawn links), <<>> before line 137
    paths,          \* the list `paths`, <<>> before line 184
    packets,        \* packets[k]: where Marker k (sequence number k) is
    packet_anims,   \* packet_anims[i]: the MoveAlongPath of Marker i
    flashes,        \* flashes[i]: the ShowPassingFlash of Marker i
    arrival,        \* the permutation used by the arrival block, <<>> before line 248
    arrive_anims,   \* the list arrive_anims, <<>> before line 251
    reorder_anims,  \* the list reorder_anims, <<>> before line 263
    reorder_runs,   \* how many times the reorder block has completed
    percent,        \* <<value>> of the ValueTracker, <<>> before line 285
    bar_fg,         \* <<width>> of the always_redraw bar, <<>> before line 298
    percent_text,   \* the always_redraw text <<number, "%">>, <<>> before line 300
    meter_added     \* TRUE once self.add(bar_fg, percent_text) has run (line 305)

vars == <<fps, block, pc, n, alpha, duration, rendered, edges, paths, packets,
          packet_anims, flashes, arrival, arrive_anims, reorder_anims,
          reorder_runs, percent, bar_fg, percent_text, meter_added>>

(***************************************************************************)
(* Exact rational arithmetic on <<num, den>> with den > 0.                 *)
(***************************************************************************)
RECURSIVE GCD(_, _)
GCD(a, b) == IF b = 0 THEN a ELSE GCD(b, a % b)

Abs(x) == IF x < 0 THEN -x ELSE x

Reduce(r) ==
    LET g == GCD(Abs(r[1]), r[2])
    IN  <<r[1] \div g, r[2] \div g>>

Zero == <<0, 1>>
One == <<1, 1>>

RatLess(r, q) == r[1] * q[2] < q[1] * r[2]

\* r * m and r / m for an integer m > 0, reduced before multiplying
RatMulInt(r, m) ==
    LET g == GCD(r[2], m)
    IN  Reduce(<<r[1] * (m \div g), r[2] \div g>>)

RatDivInt(r, m) ==
    LET g == GCD(Abs(r[1]), m)
    IN  IF r[1] = 0 THEN Zero ELSE Reduce(<<r[1] \div g, r[2] * (m \div g)>>)

RatSubInt(r, m) == <<r[1] - m * r[2], r[2]>>

\* np.clip(r, 0, 1)
Clip01(r) == IF r[1] <= 0 THEN Zero ELSE IF r[1] >= r[2] THEN One ELSE Reduce(r)

Max(S) == CHOOSE x \in S : \A y \in S : y <= x

Range(f) == {f[i] : i \in DOMAIN f}

(***************************************************************************)
(* Frame rates of the render qualities the file names (-ql, -qm, -qh, and  *)
(* "medium_quality" in __main__): 15, 30 and 60 frames per second.         *)
(***************************************************************************)
FrameRates == {15, 30, 60}

(***************************************************************************)
(* Static geometry, in 1/90 of a scene unit (the frame is 14 2/9 wide).    *)
(***************************************************************************)
\* pos: centres of the six switches
pos == [s1 |-> <<-198, 126>>, s2 |-> <<-198, -126>>,
        s3 |-> <<0, 189>>,    s4 |-> <<0, -189>>,
        s5 |-> <<198, 126>>,  s6 |-> <<198, -126>>]

SwitchNames == {"s1", "s2", "s3", "s4", "s5", "s6"}

\* Square(side_length=0.4): half a side
SwitchHalfSide == 18

\* RoundedRectangle(width=2.4, height=1.0): half extents
NicHalfWidth == 108
NicHalfHeight == 45

\* nic_src.to_edge(LEFT, buff=1.2) / nic_dst.to_edge(RIGHT, buff=1.2):
\* the centre is at -(640 - 108 - 108) resp. +(640 - 108 - 108)
nic_src == <<-424, 0>>
nic_dst == <<424, 0>>

get_left(c, half) == <<c[1] - half, c[2]>>
get_right(c, half) == <<c[1] + half, c[2]>>
get_center(c) == c

src_pt == get_right(nic_src, NicHalfWidth)
dst_pt == get_left(nic_dst, NicHalfWidth)

\* s = {k: switches[k][0].get_center()}
s == [k \in SwitchNames |-> get_center(pos[k])]

\* L(a, b): a drawn Line from a to b
L(a, b) == <<a, b>>

swL(k) == get_left(pos[k], SwitchHalfSide)
swR(k) == get_right(pos[k], SwitchHalfSide)

edges_list ==
    << L(src_pt, swL("s1")), L(src_pt, swL("s2")),
       L(swR("s1"), swL("s3")), L(swR("s1"), swL("s5")),
       L(swR("s2"), swL("s4")), L(swR("s2"), swL("s6")),
       L(swR("s3"), swL("s5")), L(swR("s4"), swL("s6")),
       L(swR("s5"), dst_pt), L(swR("s6"), dst_pt) >>

\* build_path(points): set_points_as_corners keeps the corners in order
build_path(points) == points

path_A == build_path(<<src_pt, s["s1"], s["s3"], s["s5"], dst_pt>>)
\* a path that hops from s1 to s6, which no link joins
path_B_no_link == build_path(<<src_pt, s["s1"], s["s6"], dst_pt>>)

path_B == build_path(<<src_pt, s["s1"], s["s5"], dst_pt>>)
path_C == build_path(<<src_pt, s["s2"], s["s4"], s["s6"], dst_pt>>)
path_D == build_path(<<src_pt, s["s2"], s["s6"], dst_pt>>)

paths_list == <<path_A, path_D, path_B, path_C, path_A, path_D>>

runtimes == <<4000, 2600, 3000, 3500, 2800, 4200>>

NumPackets == 6
Markers == 1..NumPackets

\* an arrival order that is already sorted
arrival_order_sorted == <<1, 2, 3, 4, 5, 6>>

arrival_order == <<2, 5, 3, 6, 4, 1>>

(***************************************************************************)
(* The timeline: the self.play / self.wait calls of construct(), in order. *)
(***************************************************************************)
Blocks == << "header", "topology", "spawn", "dispersal", "buffer", "arrival",
             "brace", "reorder", "ok_create", "ok_fade", "meter_intro",
             "tween", "gain", "wait_a", "zoom", "wait_b" >>

Kind == Blocks[block]

\* Animation.run_time when none is given
DefaultRunTime == 1000

\* lag_ratio of the LaggedStarts / AnimationGroup, in hundredths
lag_ratio_dispersal == 12
lag_ratio_group == 0
lag_ratio_arrive == 12
lag_ratio_reorder == 10

\* the six default-length move animations of the arrival / reorder blocks
move_run_times == [i \in Markers |-> DefaultRunTime]

(***************************************************************************)
(* AnimationGroup.build_animations_with_timings: member i starts at        *)
(* (1 - lag) * start[i-1] + lag * end[i-1] = start[i-1] + lag * run[i-1].  *)
(***************************************************************************)
\* every member starts at once (the lag is dropped)
start_time_no_lag(runs, lag, i) == 0

RECURSIVE start_time(_, _, _)
start_time(runs, lag, i) ==
    IF i = 1 THEN 0
    ELSE start_time(runs, lag, i - 1) + (lag * runs[i - 1]) \div 100

end_time(runs, lag, i) == start_time(runs, lag, i) + runs[i]

\* AnimationGroup.init_run_time: max_end_time
max_end_time(runs, lag) == Max({end_time(runs, lag, i) : i \in DOMAIN runs})

\* AnimationGroup.interpolate: time = rate_func(alpha) * max_end_time (linear)
group_time(a, runs, lag) == RatMulInt(a, max_end_time(runs, lag))

\* AnimationGroup.interpolate: sub_alpha = clip((time - start) / anim_time, 0, 1)
sub_alpha(time, start, end) ==
    IF end = start THEN Zero
    ELSE Clip01(RatDivInt(RatSubInt(time, start), end - start))

\* sub_alpha of member i of a LaggedStart(runs, lag) interpolated at a
lagged_alpha(a, runs, lag, i) ==
    sub_alpha(group_time(a, runs, lag),
              start_time(runs, lag, i), end_time(runs, lag, i))

(***************************************************************************)
(* The dispersal block: an AnimationGroup with lag_ratio 0.0 of two        *)
(* LaggedStarts, the first of the flashes, the second of the packet_anims. *)
(***************************************************************************)
inner_run_time == max_end_time(runtimes, lag_ratio_dispersal)
outer_runs == <<inner_run_time, inner_run_time>>

\* the flashes played together instead of with a staggered start
flash_alpha_unlagged(a, i) ==
    sub_alpha(RatMulInt(a, inner_run_time), 0, runtimes[i])

\* alpha of flash i / of motion i when the outer group is interpolated at a
flash_alpha(a, i) ==
    lagged_alpha(lagged_alpha(a, outer_runs, lag_ratio_group, 1),
                 runtimes, lag_ratio_dispersal, i)

packet_alpha(a, i) ==
    lagged_alpha(lagged_alpha(a, outer_runs, lag_ratio_group, 2),
                 runtimes, lag_ratio_dispersal, i)

(***************************************************************************)
(* Scene.compile_animations sets every keyword of self.play on the         *)
(* animation: a run_time keyword replaces the animation's own run_time.    *)
(* kw = 0 stands for "no run_time keyword".                                *)
(***************************************************************************)
compile_animations_keep_own(kw, own) == own

compile_animations(kw, own) == IF kw > 0 THEN kw ELSE own

\* the run_time keyword of each self.play call (0: none)
kw_run_time(kind) ==
    CASE kind = "header" -> 800
      [] kind = "topology" -> 2200
      [] kind = "spawn" -> 1200
      [] kind = "dispersal" -> Max(Range(runtimes)) + 100
      [] kind = "arrival" -> 2000
      [] kind = "reorder" -> 2000
      [] kind = "ok_create" -> 600
      [] kind = "ok_fade" -> 600
      [] kind = "tween" -> 2000
      [] kind = "gain" -> 600
      [] kind = "zoom" -> 1000
      [] OTHER -> 0

\* the run_time the animation of each call has by itself
own_run_time(kind) ==
    CASE kind = "dispersal" -> max_end_time(outer_runs, lag_ratio_group)
      [] kind = "arrival" -> max_end_time(move_run_times, lag_ratio_arrive)
      [] kind = "reorder" -> max_end_time(move_run_times, lag_ratio_reorder)
      [] OTHER -> DefaultRunTime

\* Scene.get_run_time of the call
play_run_time(kind) == compile_animations(kw_run_time(kind), own_run_time(kind))

\* self.wait(duration)
wait_time(kind) == IF kind = "wait_a" THEN 1000 ELSE 600

(***************************************************************************)
(* Where a Marker is.                                                      *)
(***************************************************************************)
PointLoc(p) == [kind |-> "point", p |-> p]
SlotLoc(row, idx) == [kind |-> "slot", row |-> row, idx |-> idx]

\* slots_arrive[idx].get_center() / slots_order[idx].get_center()
slots_arrive(idx) == SlotLoc("arrive", idx)
slots_order(idx) == SlotLoc("order", idx)

\* VMobject.point_from_proportion: 0 is the first corner, 1 the last
point_from_proportion(path, r) ==
    IF r = Zero THEN PointLoc(path[1])
    ELSE IF r = One THEN PointLoc(path[Len(path)])
    ELSE [kind |-> "on_path", path |-> path, r |-> r]

\* Transform.interpolate of a .animate.move_to: the position is
\* start + smooth(a) * (target - start); smooth(0) = 0, smooth(1) = 1
transform_at(start, target, a) ==
    IF a = Zero THEN start
    ELSE IF a = One THEN target
    ELSE [kind |-> "between", start |-> start, target |-> target, a |-> a]

\* the packet of sequence number k after the moves `anims` (a list of
\* [pkt, start, target]) are interpolated, member j at lagged alpha
apply_moves(pk, anims, a, lag) ==
    [k \in Markers |->
        LET j == CHOOSE i \in DOMAIN anims : anims[i].pkt = k
        IN  transform_at(anims[j].start, anims[j].target,
                         lagged_alpha(a, move_run_times, lag, j))]

(***************************************************************************)
(* The arrival and reorder placements (lines 247-268).                     *)
(***************************************************************************)
\* for idx, seq_num in enumerate(arrival_order):
\*     arrive_anims.append(packets[seq_num - 1].animate.move_to(slots_arrive[idx]))
build_arrive_anims(order, pk) ==
    [j \in 1..Len(order) |->
        [pkt |-> order[j], start |-> pk[order[j]], target |-> slots_arrive(j - 1)]]

\* the packet keeps the column it had in the row it is in
reorder_index_same_column(i, pk) == pk[i + 1].idx

\* the packet moves one column on when it already is in the sequenced row
reorder_index_relative(i, pk) ==
    IF pk[i + 1].row = "order" THEN (pk[i + 1].idx + 1) % NumPackets ELSE i

\* the index of the sequenced-row slot the loop gives packets[i] (i from 0):
\* target_slot = slots_order[i]
reorder_index(i, pk) == i

\* for i in range(6): reorder_anims.append(packets[i].animate.move_to(slots_order[i]))
build_reorder_anims(pk) ==
    [j \in Markers |->
        [pkt |-> j, start |-> pk[j], target |-> slots_order(reorder_index(j - 1, pk))]]

(***************************************************************************)
(* The performance meter (lines 281-308).                                  *)
(***************************************************************************)
\* rate_functions.smooth sampled at k/120, k = 0..120, in millionths
smooth_samples ==
    << 0, 585, 1221, 1910, 2659, 3471, 4352, 5309,
       6346, 7471, 8691, 10013, 11447, 13000, 14683, 16505,
       18479, 20615, 22926, 25426, 28129, 31050, 34205, 37611,
       41286, 45249, 49519, 54118, 59067, 64388, 70104, 76238,
       82815, 89859, 97395, 105446, 114037, 123190, 132928, 143272,
       154241, 165851, 178117, 191049, 204655, 218938, 233896, 249523,
       265807, 282729, 300267, 318390, 337063, 356242, 375879, 395921,
       416310, 436980, 457866, 478896, 500000, 521104, 542134, 563020,
       583690, 604079, 624121, 643758, 662937, 681610, 699733, 717271,
       734193, 750477, 766104, 781062, 795345, 808951, 821883, 834149,
       845759, 856728, 867072, 876810, 885963, 894554, 902605, 910141,
       917185, 923762, 929896, 935612, 940933, 945882, 950481, 954751,
       958714, 962389, 965795, 968950, 971871, 974574, 977074, 979385,
       981521, 983495, 985317, 987000, 988553, 989987, 991309, 992529,
       993654, 994691, 995648, 996529, 997341, 998090, 998779, 999415,
       1000000 >>

\* smooth(r) for r a multiple of 1/120 (every alpha of the 2 s tween at
\* 15, 30 or 60 frames per second is one)
smooth(r) == smooth_samples[(r[1] * (Len(smooth_samples) - 1)) \div r[2] + 1]

\* rate_functions.there_and_back
there_and_back(r) ==
    IF 2 * r[1] <= r[2] THEN smooth(Reduce(<<2 * r[1], r[2]>>))
    ELSE smooth(Reduce(<<2 * (r[2] - r[1]), r[2]>>))

\* rate_func=smooth of the tween (line 308)
tween_rate(r) == smooth(r)

\* ValueTracker(60) and percent.animate.set_value(95), in millionths
percent_start == 60000000
percent_target == 95000000

\* ValueTracker.interpolate: (1 - x) * start + x * target, x = rate_func(alpha)
tracker_value(a) ==
    LET x == tween_rate(a)
    IN  ((1000000 - x) * (percent_start \div 1000000)
            + x * (percent_target \div 1000000))

\* bar_bg = Rectangle(width=4.0, ...), in 1e-8 scene units
bar_bg_width == 400000000

\* make_bar: w = bar_bg.width * (percent / 100); w = max(0.02, min(bar_bg.width, w))
make_bar(v) ==
    LET w == (bar_bg_width \div 100000000) * v
        lo == 2000000
        capped == IF w > bar_bg_width THEN bar_bg_width ELSE w
    IN  IF capped < lo THEN lo ELSE capped

\* f"{v:.0f}": round to the nearest integer, ties to even
format_0f(v) ==
    LET q == v \div 1000000
        r == v % 1000000
    IN  IF 2 * r > 1000000 \/ (2 * r = 1000000 /\ q % 2 = 1) THEN q + 1 ELSE q

\* Text(f"{percent.get_value():.0f}%")
percent_label(v) == <<format_0f(v), "%">>

\* Scene.update_to_time interpolates the animations and then runs the
\* updaters: an updater reads the tracker as the frame's interpolation left it
updater_stale(old, new) == old

updater_view(old, new) == new

(***************************************************************************)
(* The state before construct() runs.                                      *)
(***************************************************************************)
Init ==
    /\ fps \in FrameRates
    /\ block = 1
    /\ pc = "ready"
    /\ n = 0
    /\ alpha = Zero
    /\ duration = 0
    /\ rendered = FALSE
    /\ edges = <<>>
    /\ paths = <<>>
    /\ packets = <<>>
    /\ packet_anims = <<>>
    /\ flashes = <<>>
    /\ arrival = <<>>
    /\ arrive_anims = <<>>
    /\ reorder_anims = <<>>
    /\ reorder_runs = 0
    /\ percent = <<>>
    /\ bar_fg = <<>>
    /\ percent_text = <<>>
    /\ meter_added = FALSE

(***************************************************************************)
(* Interpolating the current block's animations at alpha = a.              *)
(***************************************************************************)
packets_at(a) ==
    CASE Kind = "dispersal" ->
            \* MoveAlongPath: dot.move_to(path.point_from_proportion(linear(alpha)))
            [k \in Markers |-> point_from_proportion(paths[k], packet_alpha(a, k))]
      [] Kind = "arrival" -> apply_moves(packets, arrive_anims, a, lag_ratio_arrive)
      [] Kind = "reorder" -> apply_moves(packets, reorder_anims, a, lag_ratio_reorder)
      [] OTHER -> packets

Interpolate(a) ==
    /\ alpha' = a
    /\ packets' = packets_at(a)
    /\ packet_anims' =
          IF Kind = "dispersal"
          THEN [i \in Markers |-> [packet_anims[i] EXCEPT !.a = packet_alpha(a, i)]]
          ELSE packet_anims
    /\ flashes' =
          IF Kind = "dispersal"
          THEN [i \in Markers |-> [flashes[i] EXCEPT !.a = flash_alpha(a, i)]]
          ELSE flashes
    /\ percent' = IF Kind = "tween" THEN <<tracker_value(a)>> ELSE percent

\* Scene.update_mobjects: the always_redraw updaters of bar_fg and percent_text
RunUpdaters ==
    IF meter_added
    THEN /\ bar_fg' = <<make_bar(updater_view(percent[1], percent'[1]))>>
         /\ percent_text' = percent_label(updater_view(percent[1], percent'[1]))
    ELSE UNCHANGED <<bar_fg, percent_text>>

\* frames a block of d ms takes: len(np.arange(0, d, 1 / fps))
frames_of(d, f) == (d * f + 999) \div 1000

IsWait(kind) == kind \in {"wait_a", "wait_b"}

\* self.camera.frame (line 319): the Camera of a plain Scene has no `frame`
RaisesAttributeError(kind) == kind = "zoom"

AfterBlock ==
    IF block = Len(Blocks)
    THEN /\ pc' = "returned"
         /\ UNCHANGED block
    ELSE /\ pc' = "ready"
         /\ block' = block + 1

(***************************************************************************)
(* Begin: the code in front of the self.play call, compile_animations and  *)
(* Scene.begin_animations.                                                 *)
(***************************************************************************)
Begin ==
    /\ pc = "ready"
    /\ ~IsWait(Kind)
    /\ ~RaisesAttributeError(Kind)
    /\ pc' = "playing"
    /\ n' = 0
    /\ alpha' = Zero
    /\ duration' = play_run_time(Kind)
    /\ rendered' = FALSE
    /\ edges' = IF Kind = "topology" THEN edges_list ELSE edges
    /\ paths' = IF Kind = "spawn" THEN paths_list ELSE paths
    /\ packets' = IF Kind = "spawn" THEN [k \in Markers |-> PointLoc(src_pt)] ELSE packets
    /\ packet_anims' =
          IF Kind = "spawn"
          THEN [i \in Markers |->
                   [path |-> paths_list[i], run_time |-> runtimes[i], a |-> Zero]]
          ELSE packet_anims
    /\ flashes' =
          IF Kind = "spawn"
          THEN [i \in Markers |->
                   [path |-> paths_list[i], run_time |-> runtimes[i], a |-> Zero]]
          ELSE flashes
    /\ arrival' = IF Kind = "arrival" THEN arrival_order ELSE arrival
    /\ arrive_anims' =
          IF Kind = "arrival" THEN build_arrive_anims(arrival_order, packets)
          ELSE arrive_anims
    /\ reorder_anims' =
          IF Kind = "reorder" THEN build_reorder_anims(packets) ELSE reorder_anims
    /\ percent' = IF Kind = "meter_intro" THEN <<percent_start>> ELSE percent
    /\ bar_fg' = IF Kind = "meter_intro" THEN <<make_bar(percent_start)>> ELSE bar_fg
    /\ percent_text' =
          IF Kind = "meter_intro" THEN percent_label(percent_start) ELSE percent_text
    /\ meter_added' = (meter_added \/ Kind = "tween")
    /\ UNCHANGED <<fps, block, reorder_runs>>

(***************************************************************************)
(* Frame: Scene.update_to_time(t) for t = n / fps < run_time, then the     *)
(* renderer draws the frame.                                               *)
(***************************************************************************)
Frame ==
    /\ pc = "playing"
    /\ 1000 * n < duration * fps
    /\ Interpolate(Reduce(<<1000 * n, duration * fps>>))
    /\ RunUpdaters
    /\ n' = n + 1
    /\ rendered' = TRUE
    /\ UNCHANGED <<fps, block, pc, duration, edges, paths, arrival, arrive_anims,
                   reorder_anims, reorder_runs, meter_added>>

(***************************************************************************)
(* Finish: after the last frame, Animation.finish (interpolate(1)) and     *)
(* clean_up_from_scene; self.play returns.                                 *)
(***************************************************************************)
Finish ==
    /\ pc = "playing"
    /\ 1000 * n >= duration * fps
    /\ Interpolate(One)
    /\ AfterBlock
    /\ rendered' = FALSE
    /\ reorder_runs' = IF Kind = "reorder" THEN reorder_runs + 1 ELSE reorder_runs
    /\ UNCHANGED <<fps, n, duration, edges, paths, arrival, arrive_anims,
                   reorder_anims, bar_fg, percent_text, meter_added>>

(***************************************************************************)
(* StaticWait: self.wait(d) with no time-based updater in the scene: the   *)
(* renderer draws the current frame once and holds it for d.               *)
(***************************************************************************)
StaticWait ==
    /\ pc = "ready"
    /\ IsWait(Kind)
    /\ duration' = wait_time(Kind)
    /\ rendered' = TRUE
    /\ AfterBlock
    /\ UNCHANGED <<fps, n, alpha, edges, paths, packets, packet_anims, flashes,
                   arrival, arrive_anims, reorder_anims, reorder_runs, percent,
                   bar_fg, percent_text, meter_added>>

(***************************************************************************)
(* Raise: evaluating the argument of the last self.play raises, and        *)
(* construct() is left by the exception.                                   *)
(***************************************************************************)
Raise ==
    /\ pc = "ready"
    /\ RaisesAttributeError(Kind)
    /\ pc' = "aborted"
    /\ UNCHANGED <<fps, block, n, alpha, duration, rendered, edges, paths, packets,
                   packet_anims, flashes, arrival, arrive_anims, reorder_anims,
                   reorder_runs, percent, bar_fg, percent_text, meter_added>>

Next == Begin \/ Frame \/ Finish \/ StaticWait \/ Raise

Spec == Init /\ [][Next]_vars

(***************************************************************************)
(* The reassembly placement taken by itself: the arrival block played      *)
(* with any permutation of 1..6 as the arrival order, and the reorder      *)
(* block played up to MaxRuns times.  Each step is a whole block (Begin,   *)
(* its frames, Finish), so its animations end at alpha = 1.  The start     *)
(* state is the scene as the buffer block leaves it.                       *)
(***************************************************************************)
MaxRuns == 2

BlockIndex(kind) == CHOOSE i \in DOMAIN Blocks : Blocks[i] = kind

InitReassembly ==
    /\ fps \in FrameRates
    /\ block = BlockIndex("arrival")
    /\ pc = "ready"
    /\ n = frames_of(play_run_time("buffer"), fps)
    /\ alpha = One
    /\ duration = play_run_time("buffer")
    /\ rendered = FALSE
    /\ edges = edges_list
    /\ paths = paths_list
    /\ packets = [k \in Markers |-> PointLoc(dst_pt)]
    /\ packet_anims =
          [i \in Markers |-> [path |-> paths_list[i], run_time |-> runtimes[i], a |-> One]]
    /\ flashes =
          [i \in Markers |-> [path |-> paths_list[i], run_time |-> runtimes[i], a |-> One]]
    /\ arrival = <<>>
    /\ arrive_anims = <<>>
    /\ reorder_anims = <<>>
    /\ reorder_runs = 0
    /\ percent = <<>>
    /\ bar_fg = <<>>
    /\ percent_text = <<>>
    /\ meter_added = FALSE

ArrivalStep ==
    /\ pc = "ready"
    /\ arrive_anims = <<>>
    /\ \E order \in Permutations(Markers) :
          /\ arrival' = order
          /\ arrive_anims' = build_arrive_anims(order, packets)
          /\ packets' = apply_moves(packets, arrive_anims', One, lag_ratio_arrive)
    /\ block' = BlockIndex("arrival") + 1
    /\ duration' = play_run_time("arrival")
    /\ n' = frames_of(duration', fps)
    /\ UNCHANGED <<fps, pc, alpha, rendered, edges, paths, packet_anims, flashes,
                   reorder_anims, reorder_runs, percent, bar_fg, percent_text,
                   meter_added>>

ReorderStep ==
    /\ pc = "ready"
    /\ arrive_anims # <<>>
    /\ reorder_runs < MaxRuns
    /\ reorder_anims' = build_reorder_anims(packets)
    /\ packets' = apply_moves(packets, reorder_anims', One, lag_ratio_reorder)
    /\ reorder_runs' = reorder_runs + 1
    /\ block' = BlockIndex("reorder") + 1
    /\ duration' = play_run_time("reorder")
    /\ n' = frames_of(duration', fps)
    /\ UNCHANGED <<fps, pc, alpha, rendered, edges, paths, packet_anims, flashes,
                   arrival, arrive_anims, percent, bar_fg, percent_text, meter_added>>

NextReassembly == ArrivalStep \/ ReorderStep

SpecReassembly == InitReassembly /\ [][NextReassembly]_vars

(***************************************************************************)
(* Vocabulary of the properties.                                           *)
(***************************************************************************)
\* the Markers sitting in slot idx of a row
SlotHolders(row, idx) == {k \in Markers : packets[k] = SlotLoc(row, idx)}

SlotIndexes == 0..(NumPackets - 1)

\* p lies on the straight segment from a to b
OnSegment(p, a, b) ==
    /\ (b[1] - a[1]) * (p[2] - a[2]) = (b[2] - a[2]) * (p[1] - a[1])
    /\ (p[1] - a[1]) * (p[1] - b[1]) <= 0
    /\ (p[2] - a[2]) * (p[2] - b[2]) <= 0

\* the shape of a node (an endpoint or a switch) covers p
InBox(p, c, hw, hh) == Abs(p[1] - c[1]) <= hw /\ Abs(p[2] - c[2]) <= hh

NodeNames == {"src", "dst"} \cup SwitchNames

NodeCovers(nd, p) ==
    CASE nd = "src" -> InBox(p, nic_src, NicHalfWidth, NicHalfHeight)
      [] nd = "dst" -> InBox(p, nic_dst, NicHalfWidth, NicHalfHeight)
      [] OTHER -> InBox(p, pos[nd], SwitchHalfSide, SwitchHalfSide)

\* the nodes whose shape covers p
NodesAt(p) == {nd \in NodeNames : NodeCovers(nd, p)}

\* the drawn link e joins the node of p to the node of q
LinkJoins(e, p, q) ==
    \E a \in NodesAt(p), b \in NodesAt(q) :
        /\ a # b
        /\ \/ a \in NodesAt(e[1]) /\ b \in NodesAt(e[2])
           \/ a \in NodesAt(e[2]) /\ b \in NodesAt(e[1])

PathEndsAndHops(path) ==
    /\ path[1] = src_pt
    /\ path[Len(path)] = dst_pt
    /\ \A i \in 1..(Len(path) - 1) :
          \E j \in DOMAIN edges : LinkJoins(edges[j], path[i], path[i + 1])

OnSomeLink(p) == \E j \in DOMAIN edges : OnSegment(p, edges[j][1], edges[j][2])

\* the phases of the scene's state machine
Phase ==
    IF pc = "returned" THEN "Done"
    ELSE IF block < BlockIndex("spawn") THEN "Init"
    ELSE IF block < BlockIndex("dispersal") THEN "TopologyBuilt"
    ELSE IF block = BlockIndex("dispersal") /\ pc = "ready" THEN "PacketsSpawned"
    ELSE IF block <= BlockIndex("arrival") THEN "Dispersing"
    ELSE IF block <= BlockIndex("reorder") THEN "Arrived"
    ELSE IF block < BlockIndex("tween") \/ (block = BlockIndex("tween") /\ pc = "ready")
         THEN "Reassembled"
    ELSE "MeterAnimating"

PhaseOrder == << "Init", "TopologyBuilt", "PacketsSpawned", "Dispersing", "Arrived",
                 "Reassembled", "MeterAnimating", "Done" >>

PhaseIndex(ph) == CHOOSE i \in DOMAIN PhaseOrder : PhaseOrder[i] = ph

DispersalPlaying == Kind = "dispersal" /\ pc = "playing"

(***************************************************************************)
(* C1: once the reorder block has completed, the Marker with sequence      *)
(* number k sits in sequenced-row slot index k-1 for every k in 1..6, so   *)
(* the sequenced row reads 1,2,3,4,5,6, whatever permutation of 1..6 was   *)
(* the arrival order.                                                      *)
(***************************************************************************)
C1_SequencedRowAscending ==
    reorder_runs >= 1 =>
        /\ \A k \in Markers : packets[k] = SlotLoc("order", k - 1)
        /\ [j \in Markers |-> SlotHolders("order", j - 1)]
              = <<{1}, {2}, {3}, {4}, {5}, {6}>>

C1_Witness ==
    /\ reorder_runs >= 1
    /\ arrival = <<4, 1, 6, 2, 5, 3>>
    /\ \A k \in Markers : reorder_anims[k].start.row = "arrive"

(***************************************************************************)
(* C2: once the arrival block has completed, arrival-row slot j holds      *)
(* exactly the Marker whose sequence number is the j-th entry of           *)
(* 2,5,3,6,4,1; every Marker is in exactly one arrival slot, every arrival *)
(* slot holds exactly one Marker, and the row is not in ascending order.   *)
(***************************************************************************)
ArrivalComplete == arrive_anims # <<>> /\ Kind # "arrival" /\ reorder_anims = <<>>

C2_ArrivalRowFixedPermutation ==
    ArrivalComplete =>
        /\ [j \in Markers |-> SlotHolders("arrive", j - 1)]
              = <<{2}, {5}, {3}, {6}, {4}, {1}>>
        /\ \A k \in Markers :
              Cardinality({j \in SlotIndexes : packets[k] = SlotLoc("arrive", j)}) = 1
        /\ \A j \in SlotIndexes : Cardinality(SlotHolders("arrive", j)) = 1
        /\ \E j \in SlotIndexes \ {NumPackets - 1} :
              \E k1 \in SlotHolders("arrive", j), k2 \in SlotHolders("arrive", j + 1) :
                  k1 > k2

C2_Witness == ArrivalComplete /\ Kind = "brace" /\ pc = "playing" /\ rendered

(***************************************************************************)
(* C3: when the dispersal block has ended, its duration was                *)
(* max(durations) + 0.1 = 4.3 s and each of the 6 Markers is at the final  *)
(* point of its path, the destination endpoint.                            *)
(***************************************************************************)
DispersalEnded == Kind = "buffer" /\ pc = "ready"

C3_DispersalDurationAndArrival ==
    DispersalEnded =>
        /\ duration = Max({4000, 2600, 3000, 3500, 2800, 4200}) + 100
        /\ duration = 4300
        /\ \A k \in Markers :
              /\ packets[k] = PointLoc(paths[k][Len(paths[k])])
              /\ packets[k] = PointLoc(get_left(nic_dst, NicHalfWidth))
              /\ packet_anims[k].a = One

C3_Witness ==
    /\ DispersalEnded
    /\ n = frames_of(4300, fps)
    /\ \A k \in Markers : packets[k] = PointLoc(dst_pt)

(***************************************************************************)
(* C4 as claimed: in the dispersal block all 6 motions start at the same   *)
(* logical time, the start of the block: whenever one Marker's motion has  *)
(* started, every Marker's motion has.                                     *)
(***************************************************************************)
C4_AllStartTogether ==
    DispersalPlaying =>
        ((\E i \in Markers : packet_anims[i].a # Zero)
            => (\A i \in Markers : packet_anims[i].a # Zero))

(***************************************************************************)
(* C4 as amended: the motions start staggered.  On the group's own         *)
(* timeline of 6.108 s, which the 4.3 s block plays compressed, the motion *)
(* of Marker 1 starts at 0 and that of Marker i+1 starts 0.12 times the    *)
(* duration of Marker i after the start of Marker i (0, 0.48, 0.792,       *)
(* 1.152, 1.572, 1.908 s); a motion has started exactly when the group     *)
(* time is past its start and is complete exactly when the group time has  *)
(* reached its start plus its own duration, so each start depends on the   *)
(* durations of the Markers before it, and nothing else of another Marker  *)
(* enters.                                                                 *)
(***************************************************************************)
C4_StaggeredStart ==
    LET starts == <<0, 480, 792, 1152, 1572, 1908>>
        runs == <<4000, 2600, 3000, 3500, 2800, 4200>>
        time == RatMulInt(alpha, 6108)
    IN  /\ \A i \in Markers \ {NumPackets} :
              starts[i + 1] = starts[i] + (12 * runs[i]) \div 100
        /\ DispersalPlaying =>
              \A i \in Markers :
                  /\ packet_anims[i].a # Zero <=> RatLess(<<starts[i], 1>>, time)
                  /\ packet_anims[i].a = One <=> ~RatLess(time, <<starts[i] + runs[i], 1>>)

C4_Witness ==
    /\ DispersalPlaying
    /\ rendered
    /\ packet_anims[1].a # Zero
    /\ packet_anims[2].a = Zero
    /\ packet_anims[6].a = Zero

(***************************************************************************)
(* C5 as claimed: each path starts at the source endpoint position and     *)
(* ends at the destination endpoint position, every hop between            *)
(* consecutive path points corresponds to a drawn link, and every          *)
(* intermediate path point lies on a drawn link.                           *)
(***************************************************************************)
C5_PathsOnLinks ==
    paths # <<>> =>
        \A i \in DOMAIN paths :
            /\ PathEndsAndHops(paths[i])
            /\ \A j \in 2..(Len(paths[i]) - 1) : OnSomeLink(paths[i][j])

(***************************************************************************)
(* C5 as amended: each path starts at the source endpoint position and     *)
(* ends at the destination endpoint position, and every hop corresponds to *)
(* one of the 10 drawn links; every intermediate path point is the centre  *)
(* of a switch, half a switch side (0.2) away from the ends of the drawn   *)
(* links, which stop at the left and right edges of the switch: it lies on *)
(* no drawn link.                                                          *)
(***************************************************************************)
C5_PathsThroughSwitchCentres ==
    paths # <<>> =>
        /\ Len(edges) = 10
        /\ Cardinality(Range(paths)) = 4
        /\ \A i \in DOMAIN paths :
              /\ PathEndsAndHops(paths[i])
              /\ \A j \in 2..(Len(paths[i]) - 1) :
                    LET p == paths[i][j]
                    IN  /\ \E k \in SwitchNames : p = pos[k]
                        /\ \E e \in DOMAIN edges :
                              /\ edges[e][2] = <<p[1] - 18, p[2]>>
                              /\ LinkJoins(edges[e], paths[i][j - 1], p)
                        /\ \E e \in DOMAIN edges :
                              /\ edges[e][1] = <<p[1] + 18, p[2]>>
                              /\ LinkJoins(edges[e], p, paths[i][j + 1])
                        /\ ~OnSomeLink(p)

C5_Witness ==
    /\ DispersalPlaying
    /\ \E k \in Markers : packets[k].kind = "on_path"
    /\ OnSomeLink(paths[1][1])
    /\ ~OnSomeLink(paths[1][2])

(***************************************************************************)
(* C6: in the meter tween the scalar is 60 at the start of the block and   *)
(* 95 at its end, it never decreases from one frame to the next, and it is *)
(* always within [60, 95].                                                 *)
(***************************************************************************)
C6_MeterMonotone ==
    /\ [](percent # <<>> => (60000000 <= percent[1] /\ percent[1] <= 95000000))
    /\ []((Kind = "tween" /\ pc = "playing" /\ n <= 1) => percent = <<60000000>>)
    /\ []((block > BlockIndex("tween")) => percent = <<95000000>>)
    /\ [][percent # <<>> => percent'[1] >= percent[1]]_vars

C6_Witness ==
    /\ Kind = "tween"
    /\ rendered
    /\ 60000000 < percent[1]
    /\ percent[1] < 95000000

(***************************************************************************)
(* C7: in every frame drawn once the bar and the label are in the scene,   *)
(* the bar's width is clamp(4.0 * V / 100, 0.02, 4.0) and the label is V   *)
(* rounded to an integer followed by "%", V being the scalar's current     *)
(* value; and the bar and the label only ever change to what the scalar    *)
(* gives, never to a value set by the choreography.                        *)
(***************************************************************************)
DerivedFrom(v, bar, label) ==
    LET w == 4 * v
    IN  /\ bar = <<IF w < 2000000 THEN 2000000
                   ELSE IF w > 400000000 THEN 400000000 ELSE w>>
        /\ Len(label) = 2
        /\ label[2] = "%"
        /\ 2 * Abs(1000000 * label[1] - v) <= 1000000

C7_DerivedViewsFresh ==
    /\ []((meter_added /\ rendered) => DerivedFrom(percent[1], bar_fg, percent_text))
    /\ [][(bar_fg' # bar_fg \/ percent_text' # percent_text)
             => DerivedFrom(percent'[1], bar_fg', percent_text')]_vars

C7_Witness ==
    /\ meter_added
    /\ rendered
    /\ Kind = "tween"
    /\ percent[1] > 60000000
    /\ percent[1] < 95000000
    /\ bar_fg[1] > 240000000
    /\ percent_text[1] > 60

(***************************************************************************)
(* C8: running the reorder placement again yields the same slot            *)
(* assignment as running it once: every run puts the Marker with sequence  *)
(* number k into sequenced-row slot k-1 whatever position it held before.  *)
(***************************************************************************)
C8_ReorderIdempotent ==
    [][reorder_runs' = reorder_runs + 1 =>
          /\ \A k \in Markers : packets'[k] = SlotLoc("order", k - 1)
          /\ reorder_runs >= 1 => packets' = packets]_vars

C8_Witness ==
    /\ reorder_runs = 2
    /\ arrival # <<1, 2, 3, 4, 5, 6>>
    /\ \A k \in Markers : reorder_anims[k].start = SlotLoc("order", k - 1)

(***************************************************************************)
(* C9: the scene runs through the phases Init, TopologyBuilt,              *)
(* PacketsSpawned, Dispersing, Arrived, Reassembled, MeterAnimating, Done  *)
(* in that order without branch, skip or repeat, and reaches Done (the run  *)
(* stops nowhere but in Done); a block completes only with all its member  *)
(* animations complete, and no block starts before the previous one has    *)
(* completed.                                                              *)
(***************************************************************************)
C9_LinearRunToDone ==
    /\ [][Phase' = Phase \/ PhaseIndex(Phase') = PhaseIndex(Phase) + 1]_vars
    /\ [][block' # block =>
             /\ block' = block + 1
             /\ alpha' = One
             /\ rendered \/ pc = "ready"]_vars
    /\ [][(pc = "playing" /\ pc' # "playing") =>
             /\ alpha' = One
             /\ Kind = "dispersal" =>
                   \A i \in Markers : packet_anims'[i].a = One /\ flashes'[i].a = One
             /\ Kind = "arrival" =>
                   \A i \in Markers : packets'[arrive_anims[i].pkt] = arrive_anims[i].target
             /\ Kind = "reorder" =>
                   \A i \in Markers : packets'[reorder_anims[i].pkt] = reorder_anims[i].target]_vars
    /\ [][pc' = "playing" /\ pc # "playing" => pc = "ready" /\ n' = 0]_vars
    /\ [](pc \notin {"ready", "playing"} => Phase = "Done")

(***************************************************************************)
(* C10: the trail effect of Marker i runs on the Marker's path with the    *)
(* Marker's duration, and is at every moment as far along as the Marker's  *)
(* motion: it starts when the motion starts and ends when the Marker       *)
(* arrives.                                                                *)
(***************************************************************************)
C10_TrailInLockStep ==
    packet_anims # <<>> =>
        \A i \in Markers :
            /\ flashes[i].path = paths[i]
            /\ packet_anims[i].path = paths[i]
            /\ flashes[i].run_time = packet_anims[i].run_time
            /\ flashes[i].run_time = <<4000, 2600, 3000, 3500, 2800, 4200>>[i]
            /\ flashes[i].a = packet_anims[i].a

C10_Witness ==
    /\ DispersalPlaying
    /\ rendered
    /\ flashes[3].a # Zero
    /\ flashes[3].a # One
    /\ flashes[6].a = Zero

====
